---- MODULE Spec2Model ----
(***************************************************************************)
(* Model of coinbase-nft-floor-price: the library cbnftfloorprice.py       *)
(* (create_lookback, compute_new_quantile, compute_quantile,               *)
(* remove_outliers) and the batch pipeline main() of                       *)
(* run_cbnftfloorprice.py.                                                 *)
(*                                                                         *)
(* Numbers.  Log prices are integers (every small integer is a float and   *)
(* the sums, halves and quarters taken of them below are exact in binary64).*)
(* Medians are carried doubled, median absolute deviations quadrupled, and *)
(* quantiles as fractions <<num, den>>; <<0, 0>> is NaN.  A price is the   *)
(* record [positive, ln]: a positive price is known by its natural         *)
(* logarithm, so np.log reads ln and np.exp builds the record.             *)
(***************************************************************************)
EXTENDS Integers, Sequences, FiniteSets, TLC

VARIABLES pc, lookback, backtest, nft_trades_df, nft_trades_grouped_df,
          result_df, args, ret

vars == <<pc, lookback, backtest, nft_trades_df, nft_trades_grouped_df,
          result_df, args, ret>>

(***************************************************************************)
(* Bounds of the model.                                                    *)
(***************************************************************************)
MaxLen == 5
MaxVal == 4

(***************************************************************************)
(* Generic helpers.                                                        *)
(***************************************************************************)
Abs(a) == IF a < 0 THEN -a ELSE a

Min(a, b) == IF a < b THEN a ELSE b

Max(a, b) == IF a > b THEN a ELSE b

Range(s) == {s[i] : i \in DOMAIN s}

SeqsUpTo(S, n) == UNION {[1..k -> S] : k \in 0..n}

\* NaN of a float result
NaN == <<0, 0>>

IsNaN(r) == r[2] = 0

Rat(n) == <<n, 1>>

\* float comparison a <= b: False when either side is NaN
Leq(a, b) == ~IsNaN(a) /\ ~IsNaN(b) /\ a[1] * b[2] <= b[1] * a[2]

Lt(a, b) == ~IsNaN(a) /\ ~IsNaN(b) /\ a[1] * b[2] < b[1] * a[2]

RatEq(a, b) == ~IsNaN(a) /\ ~IsNaN(b) /\ a[1] * b[2] = b[1] * a[2]

(***************************************************************************)
(* remove_outliers (cbnftfloorprice.py 123-141)                            *)
(***************************************************************************)
\* np.sort of the values, as np.median does before taking the middle
Sorted(array) == SortSeq(array, LAMBDA a, b : a < b)

\* 2 * np.median(array): the middle value of an odd-length array, the mean
\* of the two middle values of an even-length one.  array is non-empty.
Median2(array) ==
    LET s == Sorted(array)
        n == Len(array)
    IN  IF n % 2 = 1 THEN 2 * s[(n + 1) \div 2]
        ELSE s[n \div 2] + s[n \div 2 + 1]

\* 4 * stats.median_abs_deviation(array): scale 1.0, center np.median.
\* The deviations |x - med| are taken doubled, and their median doubled again.
Mad4(array) ==
    LET med2 == Median2(array)
    IN  Median2([i \in DOMAIN array |-> Abs(2 * array[i] - med2)])

\* lb = array_median - 3 * array_mad, quadrupled
Lb4(array) == 2 * Median2(array) - 3 * Mad4(array)

\* ub = array_median + 3 * array_mad, quadrupled
Ub4(array) == 2 * Median2(array) + 3 * Mad4(array)

RemoveOutliersStrict(array) ==
    LET lb == Lb4(array)
        ub == Ub4(array)
        Keep(elem) == 4 * elem > lb /\ 4 * elem < ub
    IN  SelectSeq(array, Keep)

\* [float(elem) for elem in array if elem >= lb and elem <= ub]
\* On an empty array median and MAD are NaN and the comprehension has
\* nothing to test.
remove_outliers(array) ==
    LET lb == Lb4(array)
        ub == Ub4(array)
        Keep(elem) == 4 * elem >= lb /\ 4 * elem <= ub
    IN  SelectSeq(array, Keep)

(***************************************************************************)
(* Specification of remove_outliers applied once and twice to an array.    *)
(***************************************************************************)
Idle == <<>>

PipelineIdle ==
    /\ lookback = 0
    /\ backtest = 0
    /\ nft_trades_df = <<>>
    /\ nft_trades_grouped_df = <<>>
    /\ result_df = <<>>

InitOutliers ==
    /\ pc = "outliers_call"
    /\ args \in SeqsUpTo(0..MaxVal, MaxLen)
    /\ ret = Idle
    /\ PipelineIdle

RemoveOutliersOnce ==
    /\ pc = "outliers_call"
    /\ pc' = "outliers_once"
    /\ ret' = <<remove_outliers(args)>>
    /\ UNCHANGED <<lookback, backtest, nft_trades_df, nft_trades_grouped_df,
                   result_df, args>>

RemoveOutliersTwice ==
    /\ pc = "outliers_once"
    /\ pc' = "outliers_twice"
    /\ ret' = <<ret[1], remove_outliers(ret[1])>>
    /\ UNCHANGED <<lookback, backtest, nft_trades_df, nft_trades_grouped_df,
                   result_df, args>>

NextOutliers == RemoveOutliersOnce \/ RemoveOutliersTwice

SpecOutliers == InitOutliers /\ [][NextOutliers]_vars

(***************************************************************************)
(* compute_new_quantile (cbnftfloorprice.py 52-74)                         *)
(***************************************************************************)
MaxNum == 2

RAdd(a, b) == <<a[1] * b[2] + b[1] * a[2], a[2] * b[2]>>

RSub(a, b) == <<a[1] * b[2] - b[1] * a[2], a[2] * b[2]>>

RMul(a, b) == <<a[1] * b[1], a[2] * b[2]>>

\* Python's max(a, b): a unless b > a
PyMax(a, b) == IF Lt(a, b) THEN b ELSE a

\* Python's min(a, b): a unless b < a
PyMin(a, b) == IF Lt(b, a) THEN b ELSE a

\* q_curr + speed * (q_target - q_obs)
RawQuantile(q_curr, q_target, q_obs, speed) ==
    RAdd(q_curr, RMul(speed, RSub(q_target, q_obs)))

ComputeNewQuantileSwapped(q_curr, q_target, q_obs, speed, pct_target_min, pct_target_max) ==
    PyMax(pct_target_max,
          PyMin(pct_target_min, RawQuantile(q_curr, q_target, q_obs, speed)))

\* min(pct_target_max, max(pct_target_min, q_curr + speed * (q_target - q_obs)))
compute_new_quantile(q_curr, q_target, q_obs, speed, pct_target_min, pct_target_max) ==
    PyMin(pct_target_max,
          PyMax(pct_target_min, RawQuantile(q_curr, q_target, q_obs, speed)))

\* the finite inputs tried: the halves k/2
Halves == {<<k, 2>> : k \in -MaxNum..MaxNum}

InitController ==
    /\ pc = "controller_call"
    /\ args \in [{"q_curr", "q_target", "q_obs", "speed",
                  "pct_target_min", "pct_target_max"} -> Halves]
    /\ ret = Idle
    /\ PipelineIdle

ComputeNewQuantile ==
    /\ pc = "controller_call"
    /\ pc' = "controller_return"
    /\ ret' = compute_new_quantile(args.q_curr, args.q_target, args.q_obs,
                                   args.speed, args.pct_target_min,
                                   args.pct_target_max)
    /\ UNCHANGED <<lookback, backtest, nft_trades_df, nft_trades_grouped_df,
                   result_df, args>>

NextController == ComputeNewQuantile

SpecController == InitController /\ [][NextController]_vars

(***************************************************************************)
(* create_lookback (cbnftfloorprice.py 8-49)                               *)
(*                                                                         *)
(* A row carries the columns the claims read: contract_address stands for  *)
(* the group key (chain_id, contract_address); ds and unix_timestamp are   *)
(* carried along unread and left out.                                      *)
(***************************************************************************)
MaxRows == 3
MaxLookback == 1

\* the placeholder of the first row's window
SENTINEL == -42

ContractAddresses == {1, 2}

BlockNumbers == {1, 2}

LogPrices == {0, 1}

\* data.sort_values("block_number"): the default kind is quicksort, which
\* does not keep the input order of equal keys; every ascending arrangement
\* of the rows is a possible outcome.
SortValues(data) ==
    {s \in [DOMAIN data -> Range(data)] :
        /\ \A i \in DOMAIN s : \A j \in DOMAIN s :
              i < j => s[i].block_number <= s[j].block_number
        /\ \A r \in Range(data) :
              Cardinality({i \in DOMAIN s : s[i] = r})
                  = Cardinality({i \in DOMAIN data : data[i] = r})}

\* result.iloc[start:stop]["log_price"] for 0 <= start, 0 <= stop
ILocLogPrice(result, start, stop) ==
    LET last == Min(stop, Len(result))
    IN  [k \in 1..Max(0, last - start) |-> result[start + k].log_price]

IdxStartOffByOne(idx, lb) == Max(0, idx - lb - 1)

\* idx_start = max(0, idx - lookback)
IdxStart(idx, lb) == Max(0, idx - lb)

LookbackOfIdxInclusive(result, idx, lb) ==
    IF idx = 0 THEN <<SENTINEL>>
    ELSE ILocLogPrice(result, IdxStart(idx, lb), idx + 1)

\* the body of the loop over idx (0-based): the list appended to
\* lookback_prices for the row at position idx of the sorted frame
LookbackOfIdx(result, idx, lb) ==
    IF idx = 0 THEN <<SENTINEL>>
    ELSE ILocLogPrice(result, IdxStart(idx, lb), idx)

\* the frame returned for one outcome `result` of the sort: the selected
\* columns plus log_prices_lookback and trade_id
WithLookback(result, lb) ==
    [i \in DOMAIN result |->
        [contract_address |-> result[i].contract_address,
         block_number |-> result[i].block_number,
         log_price |-> result[i].log_price,
         log_prices_lookback |-> LookbackOfIdx(result, i - 1, lb),
         trade_id |-> i - 1]]

\* the frames create_lookback(data, lookback) can return
create_lookback(data, lb) == {WithLookback(result, lb) : result \in SortValues(data)}

\* the rows of one group, before create_lookback
TradeRows ==
    [contract_address : {1}, block_number : BlockNumbers, log_price : LogPrices]

InitLookback ==
    /\ pc = "lookback_call"
    /\ args \in [data : SeqsUpTo(TradeRows, MaxRows), lookback : 0..MaxLookback]
    /\ ret = Idle
    /\ PipelineIdle

CreateLookback ==
    /\ pc = "lookback_call"
    /\ pc' = "lookback_return"
    /\ ret' \in create_lookback(args.data, args.lookback)
    /\ UNCHANGED <<lookback, backtest, nft_trades_df, nft_trades_grouped_df,
                   result_df, args>>

NextLookback == CreateLookback

SpecLookback == InitLookback /\ [][NextLookback]_vars

(***************************************************************************)
(* compute_quantile (cbnftfloorprice.py 77-88)                             *)
(***************************************************************************)
\* float(pd.Series(np.array(array)).dropna().quantile(quantile)): linear
\* interpolation between the order statistics around (n - 1) * quantile;
\* NaN for an empty array.  The arrays of the pipeline hold no NaN entry.
compute_quantile(array, quantile) ==
    IF array = <<>> THEN NaN
    ELSE LET s == Sorted(array)
             n == Len(array)
             h == (n - 1) * quantile[1]
             lo == h \div quantile[2]
             hi == Min(lo + 1, n - 1)
         IN  <<s[lo + 1] * quantile[2] + (h % quantile[2]) * (s[hi + 1] - s[lo + 1]),
               quantile[2]>>

(***************************************************************************)
(* main (run_cbnftfloorprice.py 16-114)                                    *)
(*                                                                         *)
(* LOOKBACK = 140 and BACKTEST = 800 (lines 8-9) are the variables         *)
(* lookback and backtest, drawn small in Init.  args holds the content of  *)
(* nft_trades.csv.  A price_eth is [positive, ln]: positive or not, and    *)
(* its natural logarithm when positive.                                    *)
(***************************************************************************)
MaxBacktest == 2

PCT_TARGET == <<1, 20>>

PCT_TARGET_MIN == <<1, 50>>

PCT_TARGET_MAX == <<1, 10>>

SPEED == <<1, 2>>

PricesEth ==
    {[positive |-> FALSE, ln |-> 0]} \cup {[positive |-> TRUE, ln |-> k] : k \in LogPrices}

CsvRows ==
    [contract_address : ContractAddresses, block_number : BlockNumbers,
     price_eth : PricesEth]

\* np.log of a positive price
Log(price_eth) == price_eth.ln

\* np.exp of a float: exp(NaN) is NaN
Exp(x) == IF IsNaN(x) THEN [positive |-> FALSE, ln |-> NaN] ELSE [positive |-> TRUE, ln |-> x]

\* the group keys of a frame
Keys(df) == {df[i].contract_address : i \in DOMAIN df}

\* the rows of one group, in frame order
GroupRows(df, key) == SelectSeq(df, LAMBDA r : r.contract_address = key)

MinKey(keys) == CHOOSE k \in keys : \A j \in keys : k <= j

\* (contract_address, block_number) of a before that of b
KeyLess(a, b) ==
    \/ a.contract_address < b.contract_address
    \/ a.contract_address = b.contract_address /\ a.block_number < b.block_number

RECURSIVE InsertRow(_, _)
\* r placed after every row whose key is not greater
InsertRow(sorted, r) ==
    IF sorted = <<>> THEN <<r>>
    ELSE IF KeyLess(r, sorted[Len(sorted)])
         THEN Append(InsertRow(SubSeq(sorted, 1, Len(sorted) - 1), r), sorted[Len(sorted)])
         ELSE Append(sorted, r)

RECURSIVE SortByGroupAndBlock(_)
\* sort_values(["chain_id", "contract_address", "block_number"]): the sort
\* on several columns keeps the input order of equal keys
SortByGroupAndBlock(df) ==
    IF df = <<>> THEN <<>>
    ELSE InsertRow(SortByGroupAndBlock(SubSeq(df, 1, Len(df) - 1)), df[Len(df)])

\* groupby(...)["block_number"].rank(method="first", ascending=False) of row i:
\* 1 for the highest block_number of the group, equal values ranked in the
\* order they appear
Rank(df, i) ==
    1 + Cardinality({j \in DOMAIN df :
                        /\ df[j].contract_address = df[i].contract_address
                        /\ \/ df[j].block_number > df[i].block_number
                           \/ df[j].block_number = df[i].block_number /\ j < i})

RECURSIVE KeepIndices(_, _, _)
\* the rows of df whose index satisfies keep, in order
KeepIndices(df, keep, i) ==
    IF i > Len(df) THEN <<>>
    ELSE (IF i \in keep THEN <<df[i]>> ELSE <<>>) \o KeepIndices(df, keep, i + 1)

\* nft_trades_df[nft_trades_df["rank"] < BACKTEST + LOOKBACK * 2]
RestrictUpstream(df, lb, bt) ==
    KeepIndices(df, {i \in DOMAIN df : Rank(df, i) < bt + lb * 2}, 1)

\* lines 21-31: positive prices, log_price, sort, rank, restriction
Preprocessed(csv, lb, bt) ==
    LET positive == SelectSeq(csv, LAMBDA r : r.price_eth.positive)
        logged == [i \in DOMAIN positive |->
                      [contract_address |-> positive[i].contract_address,
                       block_number |-> positive[i].block_number,
                       log_price |-> Log(positive[i].price_eth)]]
    IN  RestrictUpstream(SortByGroupAndBlock(logged), lb, bt)

RECURSIVE LookbackFrames(_, _, _)
\* groupby(...).apply(create_lookback): the frames of the groups, one outcome
\* each, concatenated in key order
LookbackFrames(df, keys, lb) ==
    IF keys = {} THEN {<<>>}
    ELSE LET k == MinKey(keys)
         IN  {head \o rest : head \in create_lookback(GroupRows(df, k), lb),
                             rest \in LookbackFrames(df, keys \ {k}, lb)}

ILocHead(x, bt) == SubSeq(x, 1, Min(bt, Len(x)))

\* x.iloc[-BACKTEST:]: the last BACKTEST rows; -0 is 0 and keeps every row
ILocTail(x, bt) ==
    IF bt = 0 THEN x ELSE SubSeq(x, Max(1, Len(x) - bt + 1), Len(x))

RECURSIVE BacktestFrames(_, _, _)
\* groupby(...).apply(lambda x: x.iloc[-BACKTEST:])
BacktestFrames(df, keys, bt) ==
    IF keys = {} THEN <<>>
    ELSE LET k == MinKey(keys)
         IN  ILocTail(GroupRows(df, k), bt) \o BacktestFrames(df, keys \ {k}, bt)

PriceSmallerStrict(row) == Lt(Rat(row.log_price), row.log_price_target_quantile)

\* x["log_price"] <= x["log_price_target_quantile"]
PriceSmaller(row) == Leq(Rat(row.log_price), row.log_price_target_quantile)

\* df[name] = values: the frame with one more column, values[i] in row i
WithColumn(df, name, values) ==
    [i \in DOMAIN df |->
        [c \in DOMAIN df[i] \cup {name} |-> IF c = name THEN values[i] ELSE df[i][c]]]

\* lines 68-76: the sums of price_smaller and of one per group, and their
\* quotient quantile_obs
Grouped(df) ==
    [k \in Keys(df) |->
        LET rows == GroupRows(df, k)
            smaller == Cardinality({i \in DOMAIN rows : rows[i].price_smaller})
        IN  [price_smaller |-> smaller, one |-> Len(rows),
             quantile_obs |-> <<smaller, Len(rows)>>]]

\* lines 79-89
QuantileAdj(grouped) ==
    [k \in DOMAIN grouped |->
        [c \in DOMAIN grouped[k] \cup {"quantile_adj"} |->
            IF c = "quantile_adj"
            THEN compute_new_quantile(PCT_TARGET, PCT_TARGET, grouped[k].quantile_obs,
                                      SPEED, PCT_TARGET_MIN, PCT_TARGET_MAX)
            ELSE grouped[k][c]]]

\* groupby(...).tail(1) with floor_price_est = np.exp(log_price_adj)
RECURSIVE Tails(_, _)
Tails(df, keys) ==
    IF keys = {} THEN <<>>
    ELSE LET k == MinKey(keys)
             rows == GroupRows(df, k)
             last == rows[Len(rows)]
         IN  <<[c \in DOMAIN last \cup {"floor_price_est"} |->
                   IF c = "floor_price_est" THEN Exp(last.log_price_adj) ELSE last[c]]>>
             \o Tails(df, keys \ {k})

Init ==
    /\ pc = "reading data"
    /\ lookback \in 0..MaxLookback
    /\ backtest \in 1..MaxBacktest
    /\ args \in SeqsUpTo(CsvRows, MaxRows)
    /\ nft_trades_df = <<>>
    /\ nft_trades_grouped_df = <<>>
    /\ result_df = <<>>
    /\ ret = Idle

\* lines 17-31
Preprocessing ==
    /\ pc = "reading data"
    /\ nft_trades_df' = Preprocessed(args, lookback, backtest)
    /\ pc' = "creating lookback"
    /\ UNCHANGED <<lookback, backtest, nft_trades_grouped_df, result_df, args, ret>>

\* A frame left without rows: the group-wise and row-wise applies of an
\* empty frame do not produce the columns the later steps read.  The run
\* ends with no estimate, by an exception or by an empty result.
EmptyFrame ==
    /\ pc = "creating lookback"
    /\ nft_trades_df = <<>>
    /\ pc' \in {"raised", "done"}
    /\ UNCHANGED <<lookback, backtest, nft_trades_df, nft_trades_grouped_df,
                   result_df, args, ret>>

\* lines 33-38
CreatingLookback ==
    /\ pc = "creating lookback"
    /\ nft_trades_df # <<>>
    /\ nft_trades_df' \in LookbackFrames(nft_trades_df, Keys(nft_trades_df), lookback)
    /\ pc' = "restricting to backtest window"
    /\ UNCHANGED <<lookback, backtest, nft_trades_grouped_df, result_df, args, ret>>

\* lines 40-47
RestrictingToBacktest ==
    /\ pc = "restricting to backtest window"
    /\ nft_trades_df' = BacktestFrames(nft_trades_df, Keys(nft_trades_df), backtest)
    /\ pc' = "removing outliers"
    /\ UNCHANGED <<lookback, backtest, nft_trades_grouped_df, result_df, args, ret>>

\* lines 49-53
RemovingOutliers ==
    /\ pc = "removing outliers"
    /\ nft_trades_df' = WithColumn(nft_trades_df, "log_prices_lookback_no_outliers",
                            [i \in DOMAIN nft_trades_df |->
                                remove_outliers(nft_trades_df[i].log_prices_lookback)])
    /\ pc' = "compute target quantile"
    /\ UNCHANGED <<lookback, backtest, nft_trades_grouped_df, result_df, args, ret>>

\* lines 55-61
ComputeTargetQuantile ==
    /\ pc = "compute target quantile"
    /\ nft_trades_df' = WithColumn(nft_trades_df, "log_price_target_quantile",
                            [i \in DOMAIN nft_trades_df |->
                                compute_quantile(
                                    nft_trades_df[i].log_prices_lookback_no_outliers,
                                    PCT_TARGET)])
    /\ pc' = "compute observed quantile"
    /\ UNCHANGED <<lookback, backtest, nft_trades_grouped_df, result_df, args, ret>>

\* lines 63-76
ComputeObservedQuantile ==
    /\ pc = "compute observed quantile"
    /\ LET df == WithColumn(nft_trades_df, "price_smaller",
                            [i \in DOMAIN nft_trades_df |-> PriceSmaller(nft_trades_df[i])])
       IN  /\ nft_trades_df' = df
           /\ nft_trades_grouped_df' = Grouped(df)
    /\ pc' = "compute adjusted quantile"
    /\ UNCHANGED <<lookback, backtest, result_df, args, ret>>

\* lines 78-89
ComputeAdjustedQuantile ==
    /\ pc = "compute adjusted quantile"
    /\ nft_trades_grouped_df' = QuantileAdj(nft_trades_grouped_df)
    /\ pc' = "computing adjusted log price"
    /\ UNCHANGED <<lookback, backtest, nft_trades_df, result_df, args, ret>>

\* lines 91-104: price_smaller and one dropped, the group's columns merged
\* in, log_price_adj computed
ComputingAdjustedLogPrice ==
    /\ pc = "computing adjusted log price"
    /\ nft_trades_df' =
          [i \in DOMAIN nft_trades_df |->
              LET x == nft_trades_df[i]
                  g == nft_trades_grouped_df[x.contract_address]
              IN  [contract_address |-> x.contract_address,
                   block_number |-> x.block_number,
                   log_price |-> x.log_price,
                   log_prices_lookback |-> x.log_prices_lookback,
                   trade_id |-> x.trade_id,
                   log_prices_lookback_no_outliers |-> x.log_prices_lookback_no_outliers,
                   log_price_target_quantile |-> x.log_price_target_quantile,
                   price_smaller |-> g.price_smaller,
                   one |-> g.one,
                   quantile_obs |-> g.quantile_obs,
                   quantile_adj |-> g.quantile_adj,
                   log_price_adj |-> compute_quantile(x.log_prices_lookback_no_outliers,
                                                      g.quantile_adj)]]
    /\ pc' = "getting results"
    /\ UNCHANGED <<lookback, backtest, nft_trades_grouped_df, result_df, args, ret>>

\* lines 106-114
GettingResults ==
    /\ pc = "getting results"
    /\ result_df' = Tails(nft_trades_df, Keys(nft_trades_df))
    /\ pc' = "done"
    /\ UNCHANGED <<lookback, backtest, nft_trades_df, nft_trades_grouped_df, args, ret>>

Next ==
    \/ Preprocessing
    \/ EmptyFrame
    \/ CreatingLookback
    \/ RestrictingToBacktest
    \/ RemovingOutliers
    \/ ComputeTargetQuantile
    \/ ComputeObservedQuantile
    \/ ComputeAdjustedQuantile
    \/ ComputingAdjustedLogPrice
    \/ GettingResults

Spec == Init /\ [][Next]_vars

(***************************************************************************)
(* Properties of remove_outliers.  The median and the MAD of the property  *)
(* statements are defined by rank, independently of the sort above.        *)
(***************************************************************************)
\* the k-th smallest value of x (1-based)
OrderStat(x, k) ==
    CHOOSE v \in Range(x) :
        /\ Cardinality({i \in DOMAIN x : x[i] < v}) < k
        /\ k <= Cardinality({i \in DOMAIN x : x[i] <= v})

\* twice the median of a non-empty x
MedianTimes2(x) ==
    OrderStat(x, (Len(x) + 1) \div 2) + OrderStat(x, (Len(x) + 2) \div 2)

\* four times the unscaled median absolute deviation of a non-empty x
MadTimes4(x) ==
    LET m2 == MedianTimes2(x)
    IN  MedianTimes2([i \in DOMAIN x |-> Abs(2 * x[i] - m2)])

\* m - 3d <= v <= m + 3d, given 2m and 4d
WithinBand(m2, d4, v) ==
    /\ 2 * m2 - 3 * d4 <= 4 * v
    /\ 4 * v <= 2 * m2 + 3 * d4

RECURSIVE IsSubsequence(_, _)
\* a is b with some elements left out, the rest in b's order
IsSubsequence(a, b) ==
    IF a = <<>> THEN TRUE
    ELSE IF b = <<>> THEN FALSE
    ELSE IF Head(a) = Head(b) THEN IsSubsequence(Tail(a), Tail(b))
    ELSE IsSubsequence(a, Tail(b))

\* C6 as stated: remove_outliers(remove_outliers(x)) = remove_outliers(x)
\* for every input sequence x.
C6_Idempotent ==
    pc = "outliers_twice" => ret[2] = ret[1]

\* C6 as amended: the second application returns an order-preserving
\* subsequence of the first; when the MAD of x is 0 one and two applications
\* agree, and both return exactly the occurrences of the median of x.
C6_IdempotentWhenMadZero ==
    pc = "outliers_twice" =>
        /\ IsSubsequence(ret[2], ret[1])
        /\ (args # <<>> /\ MadTimes4(args) = 0) =>
              LET m2 == MedianTimes2(args)
              IN  /\ ret[2] = ret[1]
                  /\ ret[1] = SelectSeq(args, LAMBDA v : 2 * v = m2)

\* C6 witness: an input of MAD 0 from which values were removed, filtered twice
C6_Witness ==
    /\ pc = "outliers_twice"
    /\ args # <<>>
    /\ MadTimes4(args) = 0
    /\ Len(ret[1]) < Len(args)
    /\ ret[1] # <<>>
    /\ ret[2] = ret[1]

IsSortOf(frame, data) ==
    /\ Len(frame) = Len(data)
    /\ \A i \in DOMAIN frame : \A j \in DOMAIN frame :
          i < j => frame[i].block_number <= frame[j].block_number
    /\ \A r \in Range(data) :
          Cardinality({i \in DOMAIN frame :
                          /\ frame[i].block_number = r.block_number
                          /\ frame[i].log_price = r.log_price})
              = Cardinality({i \in DOMAIN data : data[i] = r})

\* C2 as stated: one lookback window per trade, every window of length
\* <= lookback, and the first trade's window is the sentinel [-42.0], for
\* every group with at least one trade and every lookback >= 0.
C2_EveryWindowWithinLookback ==
    (pc = "lookback_return" /\ Len(args.data) >= 1) =>
        /\ Len(ret) = Len(args.data)
        /\ \A i \in DOMAIN ret : Len(ret[i].log_prices_lookback) <= args.lookback
        /\ ret[1].log_prices_lookback = <<-42>>

\* C2 as amended: one lookback window per trade, the first trade's window is
\* the sentinel [-42.0] (of length 1, whatever lookback is), and every other
\* window has length <= lookback.
C2_LaterWindowsWithinLookback ==
    (pc = "lookback_return" /\ Len(args.data) >= 1) =>
        /\ IsSortOf(ret, args.data)
        /\ \A i \in DOMAIN ret : ret[i].trade_id = i - 1
        /\ \A i \in DOMAIN ret :
              i > 1 => Len(ret[i].log_prices_lookback) <= args.lookback
        /\ ret[1].log_prices_lookback = <<-42>>

\* C2 witness: three trades given out of block order, lookback 1, the last window of length 1
C2_Witness ==
    /\ pc = "lookback_return"
    /\ Len(ret) = 3
    /\ args.lookback = 1
    /\ Len(ret[3].log_prices_lookback) = 1
    /\ args.data[1].block_number > args.data[2].block_number

PositiveTrades(key) ==
    SelectSeq(args, LAMBDA r : r.contract_address = key /\ r.price_eth.positive)

HowMany(rows, P(_)) == Cardinality({i \in DOMAIN rows : P(rows[i])})

\* C1: after the upstream restriction every group with n positive-price
\* trades retains exactly min(n, backtest + 2*lookback) trades, those with
\* the highest block numbers of the group.
C1_RetainsBacktestPlusTwoLookback ==
    pc = "creating lookback" =>
        \A key \in ContractAddresses :
            LET n == Len(PositiveTrades(key))
                kept == GroupRows(nft_trades_df, key)
            IN  /\ Len(kept) = Min(n, backtest + 2 * lookback)
                /\ \A b \in BlockNumbers :
                      HowMany(kept, LAMBDA r : r.block_number >= b)
                          = Min(Len(kept),
                                HowMany(PositiveTrades(key), LAMBDA r : r.block_number >= b))

\* an estimate that is exp of the -42.0 placeholder
SentinelDerived(estimate) ==
    estimate.positive /\ RatEq(estimate.ln, Rat(SENTINEL))

\* C4: a group with exactly one trade ends the pipeline without a floor-price
\* estimate (an explicit "insufficient data" outcome), never with an estimate
\* derived from the sentinel.
C4_OneTradeGivesNoEstimate ==
    pc = "done" =>
        \A key \in ContractAddresses :
            Len(PositiveTrades(key)) = 1 =>
                \A i \in DOMAIN result_df :
                    result_df[i].contract_address = key =>
                        /\ ~result_df[i].floor_price_est.positive
                        /\ ~SentinelDerived(result_df[i].floor_price_est)

\* the trades a group holds after the upstream restriction: its
\* positive-price trades ranked below backtest + 2*lookback, the rank of a
\* trade being one more than the number of trades of the group with a higher
\* block number, or the same one earlier in the file
UpstreamCount(key) ==
    LET trades == PositiveTrades(key)
        Before(i) == {j \in DOMAIN trades :
                         \/ trades[j].block_number > trades[i].block_number
                         \/ trades[j].block_number = trades[i].block_number /\ j < i}
    IN  Cardinality({i \in DOMAIN trades :
                        1 + Cardinality(Before(i)) < backtest + 2 * lookback})

AfterObserved ==
    {"compute adjusted quantile", "computing adjusted log price", "getting results", "done"}

\* C8: the observed quantile of a group, the one passed to the controller,
\* is the number of its evaluated trades (those kept by the restriction to
\* the most recent backtest trades) with log_price <= their own
\* target-quantile estimate, divided by the number of its evaluated trades;
\* one scalar per group, in [0, 1].
C8_ObservedQuantileIsGroupMean ==
    (pc \in AfterObserved /\ nft_trades_df # <<>>) =>
        /\ DOMAIN nft_trades_grouped_df = Keys(nft_trades_df)
        /\ \A key \in Keys(nft_trades_df) :
              LET rows == GroupRows(nft_trades_df, key)
                  held == UpstreamCount(key)
                  below == HowMany(rows,
                              LAMBDA r : /\ ~IsNaN(r.log_price_target_quantile)
                                         /\ r.log_price * r.log_price_target_quantile[2]
                                               <= r.log_price_target_quantile[1])
                  q_obs == nft_trades_grouped_df[key].quantile_obs
              IN  /\ Len(rows) = Min(backtest, held)
                  /\ q_obs = <<below, Len(rows)>>
                  /\ 0 <= q_obs[1] /\ q_obs[1] <= q_obs[2]
                  /\ pc # "compute adjusted quantile" =>
                        nft_trades_grouped_df[key].quantile_adj
                            = compute_new_quantile(PCT_TARGET, PCT_TARGET, <<below, Len(rows)>>,
                                                   SPEED, PCT_TARGET_MIN, PCT_TARGET_MAX)

\* C8 witness: two groups, one with one of two evaluated trades below target
C8_Witness ==
    /\ pc = "computing adjusted log price"
    /\ Keys(nft_trades_df) = {1, 2}
    /\ nft_trades_grouped_df[1].quantile_obs = <<1, 2>>
    /\ nft_trades_grouped_df[2].quantile_obs = <<0, 1>>
    /\ UpstreamCount(1) = 2

AfterBacktest ==
    AfterObserved \cup {"removing outliers", "compute target quantile",
                        "compute observed quantile"}

Has(row, column) == column \in DOMAIN row

\* the row's window, or a value computed from it, is the placeholder
UsesSentinel(row) ==
    \/ SENTINEL \in Range(row.log_prices_lookback)
    \/ Has(row, "log_prices_lookback_no_outliers")
          /\ SENTINEL \in Range(row.log_prices_lookback_no_outliers)
    \/ Has(row, "log_price_target_quantile")
          /\ RatEq(row.log_price_target_quantile, Rat(SENTINEL))
    \/ Has(row, "log_price_adj") /\ RatEq(row.log_price_adj, Rat(SENTINEL))
    \/ Has(row, "floor_price_est") /\ SentinelDerived(row.floor_price_est)

\* C10: after restrict-upstream, build-lookback, restrict-to-backtest, the
\* sentinel window [-42.0] is the window of an evaluated trade of a group if
\* and only if the group holds at most backtest trades after the upstream
\* restriction; a group holding more has no evaluated trade, estimate or
\* signal that uses the sentinel.
C10_SentinelIffAtMostBacktest ==
    pc \in AfterBacktest =>
        \A key \in Keys(nft_trades_df) :
            LET rows == GroupRows(nft_trades_df, key)
                held == UpstreamCount(key)
            IN  /\ (\E i \in DOMAIN rows : rows[i].log_prices_lookback = <<SENTINEL>>)
                      <=> held <= backtest
                /\ held > backtest =>
                      /\ \A i \in DOMAIN rows : ~UsesSentinel(rows[i])
                      /\ \A i \in DOMAIN result_df :
                            result_df[i].contract_address = key
                                => ~UsesSentinel(result_df[i])

\* C10 witness: a group holding two trades, backtest 1: the evaluated trade is the second
C10_Witness ==
    /\ pc = "done"
    /\ UpstreamCount(1) = 2
    /\ backtest = 1
    /\ Len(result_df) = 1
    /\ ~UsesSentinel(result_df[1])
    /\ result_df[1].trade_id = 1

====
